---- MODULE Spec2Model ----
(***************************************************************************)
(* A model of game_day_scraper: GameScraper.files (the listing fetch with  *)
(* its retry loop and the entry matcher) followed by Scraper.download (the *)
(* per-descriptor streamed download with its retry loop, timeout check,    *)
(* .part file and final rename), as cli() runs them.                       *)
(*                                                                         *)
(* Text is modelled as a sequence of one-character strings, so that the    *)
(* regular expression and the path operations act on characters.           *)
(***************************************************************************)
EXTENDS Integers, Sequences, FiniteSets, TLC

(* ------------------------------ bounds -------------------------------- *)

\* retry_attempts ranges over 0..MaxRetry
MaxRetry == 2
\* the wall clock advances by at most MaxClock ticks in a run
MaxClock == 1

(* --------------------------- program constants ------------------------ *)

CHUNK_SIZE == 16 * 1024

\* self.base_url after the constructor; one opaque piece of text
base_url == <<"http://gd2.mlb.com/components/game/mlb/year_2015/month_05/day_07/">>

Digit == {"0","1","2","3","4","5","6","7","8","9"}
Lower == {"a","b","c","d","e","f","g","h","i","j","k","l","m","n","o","p","q","r","s","t","u","v","w","x","y","z"}

(* ------------------------- the entry matcher -------------------------- *)
\* Positions are 1-based; a position of 0 means "no match".

\* a literal piece of the pattern at position i
Lit(s, i, lit) ==
    IF i = 0 THEN 0
    ELSE IF i + Len(lit) - 1 <= Len(s) /\ SubSeq(s, i, i + Len(lit) - 1) = lit
         THEN i + Len(lit) ELSE 0

RECURSIVE DigitsEnd(_, _)
\* the position after the longest run of digits that starts at i
DigitsEnd(s, i) ==
    IF i <= Len(s) /\ s[i] \in Digit THEN DigitsEnd(s, i + 1) ELSE i

\* [\d]+ : greedy, at least one digit (what follows it is never a digit)
Digits(s, i) ==
    IF i = 0 THEN 0
    ELSE LET j == DigitsEnd(s, i) IN IF j > i THEN j ELSE 0

\* [a-z]{3}
Lower3(s, i) ==
    IF i = 0 THEN 0
    ELSE IF i + 2 <= Len(s) /\ \A k \in i..(i + 2) : s[k] \in Lower
         THEN i + 3 ELSE 0

\* (\d)
Digit1(s, i) ==
    IF i = 0 THEN 0
    ELSE IF i <= Len(s) /\ s[i] \in Digit THEN i + 1 ELSE 0

NoMatch == [matched |-> FALSE, group0 |-> <<>>, group4 |-> <<>>,
            group5 |-> <<>>, group6 |-> <<>>]

\* game_url_pattern.match(entry): anchored at the start of entry only
game_url_pattern(entry) ==
    LET p1 == Lit(entry, 1, <<"g","i","d","_">>)
        p2 == Lit(entry, Digits(entry, p1), <<"_">>)
        p3 == Lit(entry, Digits(entry, p2), <<"_">>)
        p4 == Lit(entry, Digits(entry, p3), <<"_">>)
        p5 == Lower3(entry, p4)
        p6 == Lit(entry, p5, <<"m","l","b","_">>)
        p7 == Lower3(entry, p6)
        p8 == Lit(entry, p7, <<"m","l","b","_">>)
        p9 == Digit1(entry, p8)
        p10 == Lit(entry, p9, <<"/">>)
    IN  IF p10 = 0 THEN NoMatch
        ELSE [matched |-> TRUE,
              group0 |-> SubSeq(entry, 1, p10 - 1),
              group4 |-> SubSeq(entry, p4, p5 - 1),
              group5 |-> SubSeq(entry, p6, p7 - 1),
              group6 |-> SubSeq(entry, p8, p9 - 1)]

RECURSIVE LastSlash(_, _)
\* the position of the last "/" of s at or before i, 0 when there is none
LastSlash(s, i) ==
    IF i = 0 THEN 0 ELSE IF s[i] = "/" THEN i ELSE LastSlash(s, i - 1)

RECURSIVE RStripSlash(_)
RStripSlash(s) ==
    IF Len(s) > 0 /\ s[Len(s)] = "/" THEN RStripSlash(SubSeq(s, 1, Len(s) - 1))
    ELSE s

\* os.path.split(p)[0]: what precedes the last "/", trailing slashes
\* stripped unless it is all slashes
PathSplitHead(p) ==
    LET i == LastSlash(p, Len(p))
        head == SubSeq(p, 1, i)
    IN  IF RStripSlash(head) = <<>> THEN head ELSE RStripSlash(head)

\* urljoin(base, rel) for a base that ends in "/" and a relative path
urljoin(base, rel) == base \o rel

\* Descriptor with the visitor and home groups taken the other way round
Mut_Descriptor_Swapped(m) ==
    [directory |-> m.group0,
     visitor   |-> m.group5,
     home      |-> m.group4,
     game_no   |-> m.group6,
     url       |-> urljoin(urljoin(base_url, m.group0), <<"inning/inning_all.xml">>),
     file      |-> PathSplitHead(m.group0) \o <<".","x","m","l">>]

\* the body of the loop over parser.entries for one matched entry
Descriptor(m) ==
    [directory |-> m.group0,
     visitor   |-> m.group4,
     home      |-> m.group5,
     game_no   |-> m.group6,
     url       |-> urljoin(urljoin(base_url, m.group0), <<"inning/inning_all.xml">>),
     file      |-> PathSplitHead(m.group0) \o <<".","x","m","l">>]

RECURSIVE BuildFiles(_)
\* self.files after the loop over parser.entries
BuildFiles(entries) ==
    IF entries = <<>> THEN <<>>
    ELSE LET m == game_url_pattern(Head(entries))
         IN  (IF m.matched THEN <<Descriptor(m)>> ELSE <<>>) \o BuildFiles(Tail(entries))

(* ------------------------------ values -------------------------------- *)

\* An exception object. n is the attempt that raised it (its identity).
Exc(type, status_code, url, n) ==
    [type |-> type, status_code |-> status_code, url |-> url, n |-> n]

NoError == Exc("none", 0, <<>>, 0)

\* requests.exceptions.HTTPError raised for a response with this status
HTTPError(status_code, url, n) == Exc("HTTPError", status_code, url, n)

\* requests.exceptions.ConnectionError: no response was received
ConnectionError(n) == Exc("ConnectionError", 0, <<>>, n)

NotFoundError(location, n) == Exc("NotFoundError", 0, location, n)

TimeoutError(n) == Exc("TimeoutError", 0, <<>>, n)

\* hasattr(e, 'response'): with the pinned requests 1.2.2 only HTTPError
\* carries a response attribute
HasResponse(e) == e.type = "HTTPError"

\* a file on disk: its data is the sequence of chunks written to it, each
\* chunk the bytes off..off+len-1 of a body (a body is known by its length)
Absent == [exists |-> FALSE, data |-> <<>>]

EmptyFile == [exists |-> TRUE, data |-> <<>>]

\* a file left on disk by an earlier run
Stale == [exists |-> TRUE, data |-> <<[off |-> 0, len |-> 1]>>]

RECURSIVE DataSize(_)
DataSize(data) ==
    IF data = <<>> THEN 0 ELSE Head(data).len + DataSize(Tail(data))

\* os.path.getsize
FileSize(f) == DataSize(f.data)

Min(a, b) == IF a <= b THEN a ELSE b

\* r.headers.get('Content-length') when the header is absent (None)
NoHeader == -1

\* a Content-length value that int(content_length.strip()) cannot parse
BadHeader == -2

(* ---------------------------- environment ----------------------------- *)

E1 == <<"g","i","d","_","2","0","1","5","_","0","5","_","0","7","_","b","a","l","m","l","b","_","n","y","a","m","l","b","_","1","/">>
E2 == <<"g","i","d","_","2","0","1","5","_","0","5","_","0","7","_","b","o","s","m","l","b","_","t","b","a","m","l","b","_","2","/">>
README == <<"r","e","a","d","m","e",".","t","x","t">>

\* the listings the server may answer with
Listings == { <<>>, <<README>>, <<E1>>, <<E1, README, E2>> }

\* the longest listing the matcher is given
MaxEntries == 2

\* entries next to the shape of the grammar: E1 followed by a file name, E1
\* with one-digit month and day, with a four-letter team, without its
\* slash, and with a character before gid_
E1_Index == E1 \o <<"i","n","d","e","x">>
E1_ShortDate == <<"g","i","d","_","2","0","1","5","_","5","_","7","_","b","a","l","m","l","b","_","n","y","a","m","l","b","_","1","/">>
E1_FourLetters == <<"g","i","d","_","2","0","1","5","_","0","5","_","0","7","_","b","a","l","t","m","l","b","_","n","y","a","m","l","b","_","1","/">>
E1_NoSlash == SubSeq(E1, 1, Len(E1) - 1)
E1_Prefixed == <<"x">> \o E1

Entries == { E1, E2, README, E1_Index, E1_ShortDate, E1_FourLetters,
             E1_NoSlash, E1_Prefixed }

MatchListings == UNION { [1..n -> Entries] : n \in 0..MaxEntries }

\* self.files for each listing, worked out once
FilesOf ==
    { [entries |-> l, files |-> BuildFiles(l)] : l \in Listings \cup MatchListings }

\* what DirectoryParser(self.base_url, timeout=...) does: it returns with
\* .entries set, or raises what requests.get / raise_for_status raise
DirectoryParserOutcomes ==
    { [error |-> NoError, entries |-> l] : l \in Listings }
    \cup { [error |-> e, entries |-> <<>>] :
             e \in { HTTPError(404, base_url, 0), HTTPError(500, base_url, 0),
                     ConnectionError(0) } }

\* body lengths the server may send: 0, 16 KiB, 40 KiB
BodyLens == { 0, CHUNK_SIZE, 2 * CHUNK_SIZE + CHUNK_SIZE \div 2 }

\* the Content-length a response with a body of l bytes may carry: none, l,
\* one that int() cannot parse, a larger one (the body ended early) or a
\* smaller one (a chunked response, whose body httplib does not clip to it)
Headers(l) ==
    {NoHeader, l} \cup
    (IF l = 0 THEN {BadHeader}
     ELSE IF l = CHUNK_SIZE THEN {l + CHUNK_SIZE \div 2} ELSE {0})

\* what requests.get(url, stream=True) followed by raise_for_status() does:
\* a response with a body and its header, or an exception
GetOutcomes(url) ==
    UNION { { [error |-> NoError, length |-> l, content_length |-> c] :
                 c \in Headers(l) } : l \in BodyLens }
    \cup { [error |-> e, length |-> 0, content_length |-> NoHeader] :
             e \in { HTTPError(404, url, 0), ConnectionError(0) } }

\* --timeout: None (0 here, both are false in "if self.timeout") or ticks
Timeouts == { 0, 1 }

AllFiles == { d.file : d \in { Descriptor(game_url_pattern(e)) : e \in {E1, E2} } }

tmp_of(target) == target \o <<".","p","a","r","t">>

DiskPaths == AllFiles \cup { tmp_of(t) : t \in AllFiles }

(* ------------------------------- state -------------------------------- *)

VARIABLES
    retry_attempts,  \* self.retry_attempts
    refresh,         \* self.refresh
    timeout,         \* self.timeout
    pc,              \* where cli() is
    attempt,         \* the local attempt of the running retry loop
    parser,          \* the local parser of files(): None or the entries
    files,           \* self.files once files() has built it
    idx,             \* the position of "for file in self.files"
    disk,            \* the destination directory: path -> file
    now,             \* datetime.now()
    start_time,      \* the local start_time of download()
    resp,            \* the open response r: its body length, read offset
                     \* and Content-length header
    bytes_downloaded,\* the local bytes_downloaded of download()
    max_value,       \* the local max_value of download() (0: not yet bound)
    raised,          \* the exception that left cli(), if any
    requested,       \* history: the URLs a GET was issued to
    gets,            \* history: the GETs issued by the running retry loop
    sleeps,          \* history: time.sleep(retry_delay) calls of the running loop
    errs,            \* history: the exceptions raised in the running loop
    chunks_read,     \* history: the chunks r.raw.read returned in this attempt
    outcome,         \* history: the outcome of each descriptor processed
    disk0,           \* history: the disk when the run started
    listing,         \* the entries of the listing the server holds
    run,             \* 1 in the first run of cli(), 2 in a second one
    prev             \* history: how the first run ended, in a second run

vars == << retry_attempts, refresh, timeout, pc, attempt, parser, files, idx,
           disk, now, start_time, resp, raised, requested, gets, sleeps,
           errs, chunks_read, outcome, disk0, listing, run, prev,
           bytes_downloaded, max_value >>

\* what no step of files() or download() changes
config == << retry_attempts, refresh, timeout, disk0, listing, run, prev >>

None == [set |-> FALSE, entries |-> <<>>]

NoResp == [length |-> 0, pos |-> 0, content_length |-> NoHeader]

\* the progress locals of download()
progress == << bytes_downloaded, max_value >>

\* no run before this one
NoPrev == [pc |-> "none", outcome |-> <<>>]

Init ==
    /\ retry_attempts \in 0..MaxRetry
    /\ refresh \in BOOLEAN
    /\ timeout \in Timeouts
    /\ disk \in [DiskPaths -> {Absent, Stale}]
    /\ disk0 = disk
    /\ listing \in Listings
    /\ run = 1
    /\ prev = NoPrev
    /\ pc = "files"
    /\ attempt = 0
    /\ parser = None
    /\ files = <<>>
    /\ idx = 1
    /\ now = 0
    /\ start_time = 0
    /\ resp = NoResp
    /\ bytes_downloaded = 0
    /\ max_value = 0
    /\ raised = NoError
    /\ requested = {}
    /\ gets = 0
    /\ sleeps = 0
    /\ errs = <<>>
    /\ chunks_read = <<>>
    /\ outcome = <<>>

\* how long a blocking network call may take
Ticks == IF now < MaxClock THEN {0, 1} ELSE {0}

\* CliExit with "except Exception": every error is swallowed
Mut_CliExit_CatchAll(e) == "done"

\* where cli() ends when e is raised inside its try block: it handles
\* KeyboardInterrupt alone, anything else leaves it
CliExit(e) == IF e.type = "KeyboardInterrupt" THEN "done" ELSE "raised"

(* --------------------------- GameScraper.files ------------------------ *)

\* FilesExcept sleeping whatever retry_attempts is
Mut_FilesExcept_AlwaysSleep(e, att) ==
    [sleeps |-> 1,
     raise  |-> att >= retry_attempts,
     exc    |-> IF HasResponse(e) /\ e.status_code = 404
                THEN NotFoundError(e.url, att)
                ELSE e]

\* FilesExcept giving up one attempt late (">" for ">=")
Mut_FilesExcept_OneMore(e, att) ==
    [sleeps |-> IF retry_attempts > 0 THEN 1 ELSE 0,
     raise  |-> att > retry_attempts,
     exc    |-> IF HasResponse(e) /\ e.status_code = 404
                THEN NotFoundError(e.url, att)
                ELSE e]

\* FilesExcept reclassifying every error that has a response
Mut_FilesExcept_AnyStatus(e, att) ==
    [sleeps |-> IF retry_attempts > 0 THEN 1 ELSE 0,
     raise  |-> att >= retry_attempts,
     exc    |-> IF HasResponse(e)
                THEN NotFoundError(e.url, att)
                ELSE e]

\* the except clause of files(): the sleep, whether the loop gives up, and
\* what it raises then
FilesExcept(e, att) ==
    [sleeps |-> IF retry_attempts > 0 THEN 1 ELSE 0,
     raise  |-> att >= retry_attempts,
     exc    |-> IF HasResponse(e) /\ e.status_code = 404
                THEN NotFoundError(e.url, att)
                ELSE e]

\* "while parser is None"
FilesLoopAgain(p) == ~p.set

\* one pass of the retry loop of files()
FilesAttempt ==
    /\ pc = "files"
    /\ \E out \in { o \in DirectoryParserOutcomes :
                        o.error = NoError => o.entries = listing } :
         LET att == attempt + 1
             p == IF out.error = NoError
                  THEN [set |-> TRUE, entries |-> out.entries]
                  ELSE parser
             threw == out.error # NoError \/ out.entries = <<>>
             e == IF out.error # NoError
                  THEN [out.error EXCEPT !.n = att]
                  ELSE NotFoundError(base_url, att)
             h == FilesExcept(e, att)
         IN  /\ attempt' = att
             /\ requested' = requested \cup {base_url}
             /\ gets' = gets + 1
             /\ parser' = p
             /\ IF threw
                THEN /\ errs' = Append(errs, e)
                     /\ sleeps' = sleeps + h.sleeps
                     /\ IF h.raise
                        THEN pc' = CliExit(h.exc) /\ raised' = h.exc
                        ELSE /\ pc' = IF FilesLoopAgain(p) THEN "files" ELSE "match"
                             /\ UNCHANGED raised
                ELSE /\ pc' = IF FilesLoopAgain(p) THEN "files" ELSE "match"
                     /\ UNCHANGED << errs, sleeps, raised >>
    /\ UNCHANGED << config, progress, files, idx, disk, now, start_time, resp,
                    chunks_read, outcome >>

\* the rest of files(): self.files from parser.entries; cli() goes on to
\* download()
FilesMatch ==
    /\ pc = "match"
    /\ \E b \in FilesOf : b.entries = parser.entries /\ files' = b.files
    /\ idx' = 1
    /\ pc' = "for"
    /\ UNCHANGED << config, progress, attempt, parser, disk, now, start_time, resp,
                    raised, requested, gets, sleeps, errs, chunks_read,
                    outcome >>

(* --------------------------- Scraper.download ------------------------- *)

\* the descriptor the for loop is at, its target and its tmp_file
file == files[idx]

target == file.file

tmp_file == tmp_of(target)

\* SkipExisting with the "continue" lost: an existing target is fetched again
Mut_SkipExisting_NoContinue(d, t) == FALSE

\* SkipExisting not looking at refresh
Mut_SkipExisting_IgnoreRefresh(d, t) == d[t].exists

\* "if os.path.isfile(target)" with refresh unset: continue
SkipExisting(d, t) == d[t].exists /\ ~refresh

\* OpenTmp opening in append mode: a tmp_file that is there is kept
Mut_OpenTmp_Append(d, tmp) ==
    IF d[tmp].exists THEN d ELSE [d EXCEPT ![tmp] = EmptyFile]

\* open(tmp_file, 'wb'): created, or truncated when it is there
OpenTmp(d, tmp) == [d EXCEPT ![tmp] = EmptyFile]

\* WriteChunk streaming into the destination path, not into tmp_file
Mut_WriteChunk_InPlace(d, tmp, chunk) ==
    LET t == SubSeq(tmp, 1, Len(tmp) - 5)
    IN  [d EXCEPT ![t] = [exists |-> TRUE, data |-> Append(@.data, chunk)]]

\* f.write(chunk)
WriteChunk(d, tmp, chunk) == [d EXCEPT ![tmp].data = Append(@, chunk)]

\* RemoveTmp without the os.remove
Mut_RemoveTmp_Keep(d, tmp) == d

\* "if tmp_file and os.path.isfile(tmp_file): os.remove(tmp_file)"
RemoveTmp(d, tmp) == IF d[tmp].exists THEN [d EXCEPT ![tmp] = Absent] ELSE d

\* Rename that removes tmp_file without publishing it
Mut_Rename_Lost(d, tmp, t) == [d EXCEPT ![tmp] = Absent]

\* os.rename(tmp_file, target) (POSIX: an existing target is replaced)
Rename(d, tmp, t) == [d EXCEPT ![t] = d[tmp], ![tmp] = Absent]

\* r.raw.read(CHUNK_SIZE): the next CHUNK_SIZE bytes, or what is left
ReadChunk(r) ==
    [off |-> r.pos, len |-> Min(CHUNK_SIZE, r.length - r.pos)]

\* "if content_length": the header is there ("0" is a true string too)
HasHeader(r) == r.content_length # NoHeader

\* MaxValue as the comment at line 116 warns against: total_size alone
Mut_MaxValue_TotalSize(total_size) == total_size

\* max_value = ((total_size / CHUNK_SIZE) + 1) * CHUNK_SIZE
MaxValue(total_size) == ((total_size \div CHUNK_SIZE) + 1) * CHUNK_SIZE

\* pbar.update(value) of a bar started with maxval: "ValueError: Value out
\* of range" unless 0 <= value <= maxval
PbarUpdateRaises(value, maxval) == ~(0 <= value /\ value <= maxval)

\* the ValueError of pbar.update
ValueError(n) == Exc("ValueError", 0, <<>>, n)

\* TimedOut with ">" for ">="
Mut_TimedOut_Strict(t1) == timeout # 0 /\ t1 > timeout

\* "if self.timeout and t1 >= self.timeout"
TimedOut(t1) == timeout # 0 /\ t1 >= timeout

\* DownloadExcept giving up one attempt late ("attempt > self.retry_attempts")
Mut_DownloadExcept_OffByOne(e, att) ==
    [sleeps |-> (IF retry_attempts > 0 THEN 1 ELSE 0)
                + (IF att > retry_attempts THEN 0 ELSE 1),
     raise  |-> att > retry_attempts,
     exc    |-> e]

\* the except clause of download(): its sleeps, whether the loop gives up,
\* and what it raises then (a bare raise: the exception just caught)
DownloadExcept(e, att) ==
    [sleeps |-> (IF retry_attempts > 0 THEN 1 ELSE 0)
                + (IF att >= retry_attempts THEN 0 ELSE 1),
     raise  |-> att >= retry_attempts,
     exc    |-> e]

\* DownloadFail with "break" where the bare raise is: the loop is left and
\* download() goes on
Mut_DownloadFail_Break(e, d, att) ==
    LET h == DownloadExcept(e, att)
    IN  /\ disk' = RemoveTmp(d, tmp_file)
        /\ errs' = Append(errs, e)
        /\ sleeps' = sleeps + h.sleeps
        /\ IF h.raise
           THEN /\ pc' = "rename"
                /\ raised' = raised
                /\ outcome' = Append(outcome, "Failed")
           ELSE /\ pc' = "while"
                /\ UNCHANGED << raised, outcome >>

\* attempt att of download() ends in the exception e, the disk being d
DownloadFail(e, d, att) ==
    LET h == DownloadExcept(e, att)
    IN  /\ disk' = RemoveTmp(d, tmp_file)
        /\ errs' = Append(errs, e)
        /\ sleeps' = sleeps + h.sleeps
        /\ IF h.raise
           THEN /\ pc' = CliExit(h.exc)
                /\ raised' = h.exc
                /\ outcome' = Append(outcome, "Failed")
           ELSE /\ pc' = "while"
                /\ UNCHANGED << raised, outcome >>

\* the for loop is over: download() returns
DownloadDone ==
    /\ pc = "for"
    /\ idx > Len(files)
    /\ pc' = "done"
    /\ UNCHANGED << config, progress, attempt, parser, files, idx, disk, now, start_time,
                    resp, raised, requested, gets, sleeps, errs, chunks_read,
                    outcome >>

\* the head of the for loop body: the check of the existing target
DownloadCheckExisting ==
    /\ pc = "for"
    /\ idx <= Len(files)
    /\ attempt' = 0
    /\ gets' = 0
    /\ sleeps' = 0
    /\ errs' = <<>>
    /\ IF SkipExisting(disk, target)
       THEN /\ idx' = idx + 1
            /\ pc' = "for"
            /\ outcome' = Append(outcome, "Skipped")
       ELSE /\ pc' = "while"
            /\ UNCHANGED << idx, outcome >>
    /\ UNCHANGED << config, progress, parser, files, disk, now, start_time, resp, raised,
                    requested, chunks_read >>

\* the head of the while loop: the GET, and the open of tmp_file
DownloadAttempt ==
    /\ pc = "while"
    /\ attempt' = attempt + 1
    /\ start_time' = now
    /\ requested' = requested \cup {file.url}
    /\ gets' = gets + 1
    /\ chunks_read' = <<>>
    /\ \E dt \in Ticks : now' = now + dt
    /\ \E out \in GetOutcomes(file.url) :
         IF out.error # NoError
         THEN /\ DownloadFail([out.error EXCEPT !.n = attempt + 1], disk, attempt + 1)
              /\ UNCHANGED resp
              /\ UNCHANGED progress
         ELSE IF out.content_length = BadHeader
         THEN \* int() raises ValueError, which the except clause does not
              \* name: it leaves download() before tmp_file is opened
              /\ pc' = CliExit(ValueError(attempt + 1))
              /\ raised' = ValueError(attempt + 1)
              /\ outcome' = Append(outcome, "Failed")
              /\ errs' = Append(errs, ValueError(attempt + 1))
              /\ resp' = [length |-> out.length, pos |-> 0,
                          content_length |-> out.content_length]
              /\ UNCHANGED << progress, disk, sleeps >>
         ELSE /\ resp' = [length |-> out.length, pos |-> 0,
                          content_length |-> out.content_length]
              /\ max_value' = IF HasHeader(resp')
                              THEN MaxValue(resp'.content_length)
                              ELSE max_value
              /\ bytes_downloaded' = 0
              /\ disk' = OpenTmp(disk, tmp_file)
              /\ pc' = "read"
              /\ UNCHANGED << raised, sleeps, errs, outcome >>
    /\ UNCHANGED << config, parser, files, idx >>

\* one pass of the chunk loop: read, write, the timeout check
DownloadChunk ==
    /\ pc = "read"
    /\ LET chunk == ReadChunk(resp)
       IN  IF chunk.len = 0
           THEN /\ pc' = "rename"
                /\ UNCHANGED << disk, now, resp, raised, sleeps, errs,
                                chunks_read, outcome, bytes_downloaded >>
           ELSE /\ resp' = [resp EXCEPT !.pos = @ + chunk.len]
                /\ chunks_read' = Append(chunks_read, chunk)
                /\ bytes_downloaded' = bytes_downloaded + CHUNK_SIZE
                /\ IF HasHeader(resp) /\ PbarUpdateRaises(bytes_downloaded', max_value)
                   THEN \* not an exception the except clause names: it
                        \* leaves download() with tmp_file as written
                        /\ disk' = WriteChunk(disk, tmp_file, chunk)
                        /\ pc' = CliExit(ValueError(attempt))
                        /\ raised' = ValueError(attempt)
                        /\ outcome' = Append(outcome, "Failed")
                        /\ errs' = Append(errs, ValueError(attempt))
                        /\ UNCHANGED << now, sleeps >>
                   ELSE /\ \E dt \in Ticks : now' = now + dt
                        /\ IF TimedOut(now' - start_time)
                           THEN DownloadFail(TimeoutError(attempt),
                                             WriteChunk(disk, tmp_file, chunk),
                                             attempt)
                           ELSE /\ disk' = WriteChunk(disk, tmp_file, chunk)
                                /\ UNCHANGED << pc, raised, sleeps, errs,
                                                outcome >>
    /\ UNCHANGED << config, max_value, attempt, parser, files, idx, start_time,
                    requested, gets >>

\* after the while loop: the rename, and on to the next descriptor
DownloadRename ==
    /\ pc = "rename"
    /\ disk' = Rename(disk, tmp_file, target)
    /\ outcome' = Append(outcome, "Succeeded")
    /\ idx' = idx + 1
    /\ pc' = "for"
    /\ UNCHANGED << config, progress, attempt, parser, files, now, start_time, resp,
                    raised, requested, gets, sleeps, errs, chunks_read >>

Next ==
    \/ FilesAttempt
    \/ FilesMatch
    \/ DownloadDone
    \/ DownloadCheckExisting
    \/ DownloadAttempt
    \/ DownloadChunk
    \/ DownloadRename

Spec == Init /\ [][Next]_vars

(* ------------------------------ a second run -------------------------- *)

\* cli() is started again once the first run has ended, refresh unset: a
\* new process on the disk the first run left, against the same server
Rerun ==
    /\ run = 1
    /\ pc \in {"done", "raised"}
    /\ ~refresh
    /\ run' = 2
    /\ prev' = [pc |-> pc, outcome |-> outcome]
    /\ disk0' = disk
    /\ pc' = "files"
    /\ attempt' = 0
    /\ parser' = None
    /\ files' = <<>>
    /\ idx' = 1
    /\ now' = 0
    /\ start_time' = 0
    /\ resp' = NoResp
    /\ bytes_downloaded' = 0
    /\ max_value' = 0
    /\ raised' = NoError
    /\ requested' = {}
    /\ gets' = 0
    /\ sleeps' = 0
    /\ errs' = <<>>
    /\ chunks_read' = <<>>
    /\ outcome' = <<>>
    /\ UNCHANGED << retry_attempts, refresh, timeout, listing, disk >>

NextTwice == Next \/ Rerun

SpecTwice == Init /\ [][NextTwice]_vars

(* ------------------------------ properties ---------------------------- *)

\* cli() ended with an exception raised by files()
FilesRaised == pc = "raised" /\ files = <<>>

\* cli() ended with the exception download() re-raised when it gave up at
\* descriptor idx (a RequestException or a TimeoutError)
DownloadRaised == pc = "raised" /\ files # <<>> /\ raised.type # "ValueError"

\* the for loop of download() is past descriptor i, or ended at it
Processed(i) == i < idx \/ (i = idx /\ pc \in {"read", "rename", "raised"})

\* C1: with refresh unset, a descriptor whose destination file exists is
\* never sent a GET: the loop skips it and moves on to the next one.
C1_SkipNoGet ==
    ~refresh =>
        \A i \in 1..Len(files) :
            disk0[files[i].file].exists =>
                /\ files[i].url \notin requested
                /\ i < idx => outcome[i] = "Skipped"
                /\ i = idx => pc = "for"

C1_Witness ==
    /\ ~refresh
    /\ pc = "done"
    /\ outcome = <<"Skipped", "Succeeded">>
    /\ files[1].url \notin requested

\* C2: with refresh set, every descriptor the loop has processed was sent at
\* least one GET, whether or not its destination file existed.
C2_RefreshAlwaysGets ==
    refresh =>
        \A i \in 1..Len(files) : Processed(i) => files[i].url \in requested

C2_Witness ==
    /\ refresh
    /\ pc = "done"
    /\ Len(files) = 2
    /\ disk0[files[1].file].exists
    /\ ~disk0[files[2].file].exists
    /\ files[1].url \in requested

\* C3: with retry_attempts = N >= 1, a download whose every attempt failed
\* made exactly N attempts (N GETs) and raises the error of the N-th one.
C3_ExactlyNAttempts ==
    (DownloadRaised /\ retry_attempts >= 1) =>
        /\ attempt = retry_attempts
        /\ gets = retry_attempts
        /\ Len(errs) = retry_attempts
        /\ raised = errs[retry_attempts]
        /\ raised.n = retry_attempts

C3_Witness ==
    /\ DownloadRaised
    /\ retry_attempts = 2
    /\ errs[1].type = "TimeoutError"
    /\ errs[2].type = "HTTPError"
    /\ raised = errs[2]

\* C4: with retry_attempts = N >= 1, a download whose every attempt failed
\* slept exactly N-1 times (no sleep after the last failed attempt).
C4_SleepsNMinus1 ==
    (DownloadRaised /\ retry_attempts >= 1) => sleeps = retry_attempts - 1

\* C5: with retry_attempts = 0, files() and download() make one attempt, and
\* a failed attempt (or an empty listing) raises at once, with no sleep.
C5_ZeroRetries ==
    retry_attempts = 0 =>
        /\ sleeps = 0
        /\ attempt <= 1
        /\ gets <= 1
        /\ errs # <<>> =>
             /\ pc = "raised"
             /\ Len(errs) = 1
             /\ raised.type # "none"
             /\ raised.n = 1

C5_Witness ==
    /\ retry_attempts = 0
    /\ FilesRaised
    /\ parser.set
    /\ raised.type = "NotFoundError"
    /\ gets = 1

\* C6: files() never returns normally after an attempt that returned an empty
\* listing; when every attempt returns one it raises NotFoundError with the
\* listing URL after max(1, N) fetches.
C6_EmptyListingNeverReturns ==
    /\ pc \in {"match", "for", "done"} => parser.entries # <<>>
    /\ (FilesRaised /\ \A k \in 1..Len(errs) : errs[k].type = "NotFoundError") =>
          /\ gets = (IF retry_attempts > 1 THEN retry_attempts ELSE 1)
          /\ raised = NotFoundError(base_url, gets)

\* C7: when files() gives up, a last error with an HTTP 404 response is
\* raised as NotFoundError carrying the requested URL; any other last error
\* propagates unchanged.
C7_NotFoundReclassified ==
    FilesRaised =>
        LET e == errs[Len(errs)]
        IN  IF e.type = "HTTPError" /\ e.status_code = 404
            THEN raised.type = "NotFoundError" /\ raised.url = base_url
            ELSE raised = e

C7_Witness ==
    /\ FilesRaised
    /\ retry_attempts = 2
    /\ errs[1].type = "ConnectionError"
    /\ errs[2] = HTTPError(404, base_url, 2)
    /\ raised.type = "NotFoundError"

\* C8: with retry_attempts = 2 and a listing fetch that answers 404 every
\* time, files() raises NotFoundError after exactly 2 fetches and 1 sleep.
C8_TwoFetchesOneSleep ==
    ( /\ FilesRaised
      /\ retry_attempts = 2
      /\ \A k \in 1..Len(errs) : errs[k].type = "HTTPError" /\ errs[k].status_code = 404 )
    => (gets = 2 /\ sleeps = 1 /\ raised.type = "NotFoundError")

\* C9 as stated: after a download that ended on a timed-out attempt, neither
\* the .part file nor a file at the destination path exists.
C9_TimeoutLeavesNoFile ==
    (DownloadRaised /\ raised.type = "TimeoutError") =>
        ~disk[tmp_file].exists /\ ~disk[target].exists

\* C9 as amended: after a download that ended on a timed-out attempt, the
\* .part file does not exist and the destination path holds what it held
\* before the run (nothing, or the untouched earlier file).
C9_TimeoutCleanup ==
    (DownloadRaised /\ raised.type = "TimeoutError") =>
        ~disk[tmp_file].exists /\ disk[target] = disk0[target]

C9_Witness ==
    /\ DownloadRaised
    /\ raised.type = "TimeoutError"
    /\ refresh
    /\ disk0[target] = Stale
    /\ disk0[tmp_file] = Stale
    /\ chunks_read # <<>>
    /\ disk[target] = Stale

\* C10: right after a successful attempt the destination file holds exactly
\* the chunks read in that attempt (its size is the body length), an earlier
\* file at that path is replaced, and the .part file is gone.
C10_SuccessPublishes ==
    (pc = "for" /\ outcome # <<>> /\ outcome[Len(outcome)] = "Succeeded") =>
        LET t == files[idx - 1].file
        IN  /\ disk[t].exists
            /\ disk[t].data = chunks_read
            /\ FileSize(disk[t]) = resp.length
            /\ ~disk[tmp_of(t)].exists

C10_Witness ==
    /\ pc = "for"
    /\ outcome = <<"Succeeded">>
    /\ disk0[files[1].file] = Stale
    /\ disk0[tmp_of(files[1].file)] = Stale
    /\ FileSize(disk[files[1].file]) = 40960
    /\ disk[files[1].file].data =
         << [off |-> 0, len |-> 16384], [off |-> 16384, len |-> 16384],
            [off |-> 32768, len |-> 8192] >>
    /\ ~disk[tmp_of(files[1].file)].exists

\* some descriptor's download gave up
SomeFailed == \E i \in 1..Len(outcome) : outcome[i] = "Failed"

\* C11 as stated: when a run has ended and one descriptor's download failed,
\* every descriptor of the listing has been processed (skipped or attempted).
C11_LaterStillProcessed ==
    (pc \in {"done", "raised"} /\ SomeFailed) => Len(outcome) = Len(files)

\* C11 as amended: when the download of a descriptor gives up, its error
\* leaves download() and cli(): the run ends at that descriptor, and no later
\* descriptor is sent a GET or has its files touched.
C11_FailureAborts ==
    SomeFailed =>
        /\ pc = "raised"
        /\ Len(outcome) = idx
        /\ outcome[idx] = "Failed"
        /\ raised = errs[Len(errs)]
        /\ \A j \in (idx + 1)..Len(files) :
             /\ files[j].url \notin requested
             /\ disk[files[j].file] = disk0[files[j].file]
             /\ disk[tmp_of(files[j].file)] = disk0[tmp_of(files[j].file)]

C11_Witness ==
    /\ DownloadRaised
    /\ idx = 1
    /\ Len(files) = 2
    /\ outcome = <<"Failed">>
    /\ ~disk[files[2].file].exists

\* the GETs issued so far are listing fetches only
NoDownloadGet == requested \subseteq {base_url}

\* C12: when files() ends in a terminal error the run ends with that error,
\* no download GET is issued and no file is created or changed; and a
\* download GET is only ever issued once files() has returned descriptors.
C12_ListingErrorAborts ==
    /\ (raised.type # "none" /\ files = <<>>) =>
          (pc = "raised" /\ NoDownloadGet /\ disk = disk0 /\ outcome = <<>>)
    /\ pc \in {"files", "match"} => (NoDownloadGet /\ disk = disk0)
    /\ ~NoDownloadGet =>
          /\ parser.set
          /\ files = BuildFiles(parser.entries)
          /\ files # <<>>
          /\ \A u \in requested \ {base_url} :
               \E i \in 1..Len(files) : files[i].url = u /\ i <= idx

C12_Witness ==
    /\ FilesRaised
    /\ retry_attempts = 2
    /\ gets = 2
    /\ raised.type = "ConnectionError"
    /\ \E t \in AllFiles : disk[t].exists
    /\ NoDownloadGet

\* every descriptor the run has processed was skipped
AllSkipped == \A i \in 1..Len(outcome) : outcome[i] = "Skipped"

\* C13 as stated: a second run with refresh unset, against the same listing
\* and the disk the first run left, resolves every descriptor to Skipped and
\* issues no download GET, however the first run went.
C13_SecondRunAllSkipped ==
    (run = 2 /\ pc \notin {"files", "match"} /\ parser.set) =>
        /\ NoDownloadGet
        /\ AllSkipped
        /\ pc = "done" => Len(outcome) = Len(files)

\* C13 as amended: the same, provided the first run ended normally (each of
\* its descriptors skipped or downloaded).
C13_SecondRunAfterCleanRun ==
    (run = 2 /\ prev.pc = "done") =>
        /\ NoDownloadGet
        /\ AllSkipped
        /\ disk = disk0
        /\ pc \notin {"while", "read", "rename"}
        /\ pc = "done" => Len(outcome) = Len(files)

C13_Witness ==
    /\ run = 2
    /\ prev = [pc |-> "done", outcome |-> <<"Succeeded", "Succeeded">>]
    /\ pc = "done"
    /\ outcome = <<"Skipped", "Skipped">>
    /\ NoDownloadGet

\* files() has returned for the listing of the scenario
ScenarioListed ==
    pc \notin {"files", "match", "raised"} /\ parser.entries = <<E1, README, E2>>

\* the (visitor, home, game_no) of the descriptors of files
Teams == [i \in 1..Len(files) |->
            <<files[i].visitor, files[i].home, files[i].game_no>>]

\* C14 as stated: the scenario's listing gives exactly 2 descriptors, in
\* listing order, (bal, nya, 1) and (bos, tba, 2), with destination names
\* 2015_05_07_balmlb_nyamlb_1.xml and 2015_05_07_bosmlb_tbamlb_2.xml.
C14_ScenarioNamesNoPrefix ==
    ScenarioListed =>
        /\ Len(files) = 2
        /\ Teams = << <<<<"b","a","l">>, <<"n","y","a">>, <<"1">> >>, <<<<"b","o","s">>, <<"t","b","a">>, <<"2">> >> >>
        /\ files[1].file = <<"2","0","1","5","_","0","5","_","0","7","_","b","a","l","m","l","b","_","n","y","a","m","l","b","_","1",".","x","m","l">>
        /\ files[2].file = <<"2","0","1","5","_","0","5","_","0","7","_","b","o","s","m","l","b","_","t","b","a","m","l","b","_","2",".","x","m","l">>

\* C14 as amended: the same descriptors, with destination names that keep
\* the directory's gid_ prefix: gid_2015_05_07_balmlb_nyamlb_1.xml and
\* gid_2015_05_07_bosmlb_tbamlb_2.xml.
C14_ScenarioDescriptors ==
    ScenarioListed =>
        /\ Len(files) = 2
        /\ Teams = << <<<<"b","a","l">>, <<"n","y","a">>, <<"1">> >>, <<<<"b","o","s">>, <<"t","b","a">>, <<"2">> >> >>
        /\ files[1].directory = E1
        /\ files[2].directory = E2
        /\ files[1].file = <<"g","i","d","_","2","0","1","5","_","0","5","_","0","7","_","b","a","l","m","l","b","_","n","y","a","m","l","b","_","1",".","x","m","l">>
        /\ files[2].file = <<"g","i","d","_","2","0","1","5","_","0","5","_","0","7","_","b","o","s","m","l","b","_","t","b","a","m","l","b","_","2",".","x","m","l">>

C14_Witness ==
    /\ ScenarioListed
    /\ pc = "done"
    /\ Len(files) = 2
    /\ files[2].visitor = <<"b","o","s">>

\* C15: a download ends the way the same download without a Content-length
\* header ends: the header never makes an attempt fail, so every exception an
\* attempt raises is one a headerless attempt can raise too (a
\* RequestException or a TimeoutError), never one that comes from the
\* header's value.
C15_HeaderNeverDecides ==
    \A k \in 1..Len(errs) : errs[k].type # "ValueError"

\* the step appends a TimeoutError to the exceptions of the running loop
RaisesTimeout == Len(errs') = Len(errs) + 1 /\ errs'[Len(errs')].type = "TimeoutError"

InitMatch ==
    /\ retry_attempts = 0
    /\ refresh = FALSE
    /\ timeout = 0
    /\ disk = [p \in DiskPaths |-> Absent]
    /\ disk0 = disk
    /\ listing \in MatchListings
    /\ run = 1
    /\ prev = NoPrev
    /\ pc = "match"
    /\ attempt = 1
    /\ parser = [set |-> TRUE, entries |-> listing]
    /\ files = <<>>
    /\ idx = 1
    /\ now = 0
    /\ start_time = 0
    /\ resp = NoResp
    /\ bytes_downloaded = 0
    /\ max_value = 0
    /\ raised = NoError
    /\ requested = {base_url}
    /\ gets = 1
    /\ sleeps = 0
    /\ errs = <<>>
    /\ chunks_read = <<>>
    /\ outcome = <<>>

NextMatch == FilesMatch

SpecMatch == InitMatch /\ [][NextMatch]_vars

\* gid_YYYY_MM_DD_vvvmlb_hhhmlb_N/ : "#" a digit, "@" a lowercase letter
ShapeTemplate == <<"g","i","d","_","#","#","#","#","_","#","#","_","#","#","_","@","@","@","m","l","b","_","@","@","@","m","l","b","_","#","/">>

\* the whole entry has the exact shape of the grammar
ExactShape(e) ==
    /\ Len(e) = Len(ShapeTemplate)
    /\ \A i \in 1..Len(e) :
         CASE ShapeTemplate[i] = "#" -> e[i] \in Digit
           [] ShapeTemplate[i] = "@" -> e[i] \in Lower
           [] OTHER -> e[i] = ShapeTemplate[i]

\* C17: files() builds a descriptor for exactly the entries of the exact
\* shape, in listing order, and descriptors built from distinct entries have
\* distinct destination paths.
C17_ExactShapeOnly ==
    pc = "for" =>
        /\ Len(files) = Len(SelectSeq(parser.entries, ExactShape))
        /\ \A i \in 1..Len(files) :
             files[i].directory = SelectSeq(parser.entries, ExactShape)[i]
        /\ (\A i, j \in 1..Len(parser.entries) :
               i # j => parser.entries[i] # parser.entries[j]) =>
             \A i, j \in 1..Len(files) : i # j => files[i].file # files[j].file

\* the chunks of a body of l bytes read CHUNK_SIZE at a time
ChunksOf(l) ==
    [k \in 1..((l + CHUNK_SIZE - 1) \div CHUNK_SIZE) |->
        [off |-> (k - 1) * CHUNK_SIZE,
         len |-> Min(CHUNK_SIZE, l - (k - 1) * CHUNK_SIZE)]]

\* f holds a whole response body
CompleteBody(f) == f.exists /\ \E l \in BodyLens : f.data = ChunksOf(l)

\* C18: a step changes the file at a destination path only when it is the
\* rename that follows an attempt which read its body to the end, and then
\* the file becomes the .part file holding exactly the chunks of that
\* attempt; a step of the read loop changes no path but tmp_file; so after
\* every step each destination path is absent, holds what it held before the
\* run, or holds a whole body.
C18_FinalPathOnlyByRename ==
    [][ /\ \A t \in AllFiles :
             /\ disk'[t] # disk[t] =>
                   /\ pc = "rename" /\ pc' = "for"
                   /\ t = target
                   /\ ReadChunk(resp).len = 0
                   /\ disk[tmp_file].data = chunks_read
                   /\ disk'[t] = disk[tmp_file]
                   /\ ~disk'[tmp_file].exists
                   /\ outcome' = Append(outcome, "Succeeded")
             /\ \/ disk'[t] = Absent
                \/ disk'[t] = disk0[t]
                \/ CompleteBody(disk'[t])
        /\ pc = "read" => \A p \in DiskPaths \ {tmp_file} : disk'[p] = disk[p]
      ]_vars

C18_Witness ==
    /\ pc = "read"
    /\ idx = 2
    /\ outcome = <<"Succeeded">>
    /\ disk0[files[1].file] = Stale
    /\ disk[files[1].file].data = ChunksOf(CHUNK_SIZE)
    /\ Len(chunks_read) = 2
    /\ disk[tmp_file].data = chunks_read
    /\ disk[target] = Stale

\* every network call and every sleep returns: a step that can be taken is
\* taken
SpecFair == Spec /\ WF_vars(Next)

\* max(1, N)
MaxAttempts == IF retry_attempts > 1 THEN retry_attempts ELSE 1

\* the run is over: cli() returned or an exception left it
Terminated == pc \in {"done", "raised"}

\* C19: the retry loop of files() and the retry loop of download() for each
\* descriptor make at most max(1, N) attempts (and GETs), a loop that is
\* about to make an attempt has made fewer, and every run ends: cli()
\* returns or an exception leaves it.
C19_BoundedAttemptsTerminates ==
    /\ [](/\ attempt <= MaxAttempts
          /\ gets <= MaxAttempts
          /\ Len(errs) <= MaxAttempts
          /\ pc \in {"files", "while"} => attempt < MaxAttempts)
    /\ <>Terminated

C19_Witness ==
    /\ retry_attempts = 0
    /\ DownloadRaised
    /\ idx = 2
    /\ attempt = 1
    /\ gets = 1
    /\ outcome = <<"Succeeded", "Failed">>

\* the response at hand carries a Content-length equal to its body length
HeaderIsLength == HasHeader(resp) /\ resp.content_length = resp.length

\* C20: while the response's Content-length equals its body length L, the
\* counter bytes_downloaded, CHUNK_SIZE per chunk read whatever the chunk's
\* length, never exceeds max_value = (L div CHUNK_SIZE + 1) * CHUNK_SIZE, so
\* the progress bar never raises.
C20_ProgressWithinMax ==
    HeaderIsLength =>
        /\ max_value = (resp.length \div CHUNK_SIZE + 1) * CHUNK_SIZE
        /\ pc \in {"read", "rename"} =>
             bytes_downloaded = Len(chunks_read) * CHUNK_SIZE
        /\ bytes_downloaded <= max_value
        /\ raised.type # "ValueError"

C20_Witness ==
    /\ HeaderIsLength
    /\ pc = "rename"
    /\ resp.length = 2 * CHUNK_SIZE + CHUNK_SIZE \div 2
    /\ Len(chunks_read) = 3
    /\ chunks_read[3].len = CHUNK_SIZE \div 2
    /\ bytes_downloaded = 3 * CHUNK_SIZE
    /\ max_value = 3 * CHUNK_SIZE

====
